---- MODULE Spec2Model ----
(***************************************************************************)
(* Model of the bulk e-mail dispatch handler                               *)
(*   src/app/api/bulk-email/route.tsx  (POST)                              *)
(* A string is a sequence of one-character strings, so that includes(),    *)
(* split() and trim() are computed the way the handler computes them.      *)
(***************************************************************************)
EXTENDS Integers, Sequences, FiniteSets, TLC

VARIABLES
    pc,                   \* position of the handler
    other,                \* the local variables of a second, suspended invocation
    data,                 \* the fields of `data` present in the request body
    auth,                 \* API_AUTH_TOKEN of the environment and the Authorization header
    emails,               \* the request body: [kind, val]
    env,                  \* process.env: presence of SMTP_USERn / SMTP_PASSn
    emailList,            \* the working list (entries carry their index in the cleaned list)
    recipients,           \* history: the cleaned list as computed at lines 16-21
    smtpAccounts,         \* the configured accounts, as slot numbers
    sentCount,
    failedCount,
    currentAccountIndex,  \* 0-based, as in the source
    batch,                \* the batch of the current iteration of the while loop
    account,              \* the account picked when the batch was formed (slot number)
    pos,                  \* position of the for loop in batch
    response,             \* the Response returned, once pc = "done"
    trace                 \* history: batches formed, deliveries attempted, delays awaited

vars == <<pc, other, data, auth, emails, env, emailList, recipients, smtpAccounts, sentCount,
          failedCount, currentAccountIndex, batch, account, pos, response, trace>>

----------------------------------------------------------------------------
(* Bounds of the model *)

MaxStrLen == 4        \* longest delimited string enumerated exhaustively
MaxEntries == 3       \* longest array enumerated exhaustively
MaxRecipients == 5    \* longest list of distinct valid addresses
MaxConcurrent == 3    \* longest list of each of two concurrent requests

(* Program constants *)

BatchSize == 2        \* emailList.splice(0, 2)
AccountSlots == 3     \* SMTP_USER1..3 / SMTP_PASS1..3

----------------------------------------------------------------------------
(* Strings *)

Alphabet == {"a", "@", ",", " ", "\t"}

Letters == <<"a", "b", "c", "d", "e", "f", "g", "h">>

Str(n) == UNION {[1..k -> Alphabet] : k \in 0..n}

AddrA == <<"a", "@", "x", ".", "c", "o", "m">>
AddrB == <<"b", "@", "y", ".", "c", "o", "m">>
Bad == <<"b", "a", "d">>
NotAnEmail == <<"n", "o", "t", "-", "a", "n", "-", "e", "m", "a", "i", "l">>
Blank == <<" ", " ", " ">>
Comma == <<",">>

\* the i-th of a family of distinct valid addresses
Addr(i) == <<Letters[i], "@", "x">>

\* String.prototype.includes("@")
IncludesAt(e) == \E i \in 1..Len(e) : e[i] = "@"

\* the separator class with the tab added to it
IsSeparatorAnyWhitespace(c) == c \in {"\n", ",", ";", " ", "\t"}

\* the separator class of the regular expression /[\n,; ]+/
IsSeparator(c) == c \in {"\n", ",", ";", " "}

\* String.prototype.split(/[\n,; ]+/): the pieces between maximal runs of
\* separators; a leading or trailing run yields an empty piece
RECURSIVE Split(_)
Split(s) ==
    IF s = <<>> THEN << <<>> >>
    ELSE IF IsSeparator(Head(s))
         THEN IF Tail(s) # <<>> /\ IsSeparator(Head(Tail(s)))
              THEN Split(Tail(s))
              ELSE << <<>> >> \o Split(Tail(s))
         ELSE LET rest == Split(Tail(s))
              IN  << <<Head(s)>> \o Head(rest) >> \o Tail(rest)

\* white space as String.prototype.trim() sees it
IsWhiteSpace(c) == c \in {" ", "\t", "\n"}

RECURSIVE TrimStart(_)
TrimStart(s) ==
    IF s # <<>> /\ IsWhiteSpace(Head(s)) THEN TrimStart(Tail(s)) ELSE s

RECURSIVE TrimEnd(_)
TrimEnd(s) ==
    IF s # <<>> /\ IsWhiteSpace(s[Len(s)])
    THEN TrimEnd(SubSeq(s, 1, Len(s) - 1))
    ELSE s

Trim(s) == TrimEnd(TrimStart(s))

\* line 20: .map((e) => e.trim())
TrimAll(pieces) == [i \in 1..Len(pieces) |-> Trim(pieces[i])]

----------------------------------------------------------------------------
(* The request body and the environment *)

\* !emails : undefined and the empty string are falsy, every array is truthy
Missing(body) ==
    \/ body.kind = "absent"
    \/ body.kind = "string" /\ body.val = <<>>

\* the array branch keeps every entry
CleanEmailsUnfiltered(body) ==
    IF body.kind = "array"
    THEN body.val
    ELSE SelectSeq(TrimAll(Split(body.val)), IncludesAt)

\* the array branch keeps the entries without an @
CleanEmailsInverted(body) ==
    IF body.kind = "array"
    THEN SelectSeq(body.val, LAMBDA e : ~IncludesAt(e))
    ELSE SelectSeq(TrimAll(Split(body.val)), IncludesAt)

\* lines 16-21: the cleaned list
CleanEmails(body) ==
    IF body.kind = "array"
    THEN SelectSeq(body.val, IncludesAt)
    ELSE SelectSeq(TrimAll(Split(body.val)), IncludesAt)

\* an entry of the working list: the address and its index in the cleaned list
Tag(list) == [i \in 1..Len(list) |-> [id |-> i, addr |-> list[i]]]

\* a user or a password alone makes an account
ConfiguredEither(acc) == acc.user \/ acc.pass

\* lines 31-35: acc.user && acc.pass
Configured(acc) == acc.user /\ acc.pass

\* the slots taken from the last to the first
SlotSeqReversed == [i \in 1..AccountSlots |-> AccountSlots + 1 - i]

\* lines 31-34: the three slots, in the order of the array literal
SlotSeq == [i \in 1..AccountSlots |-> i]

SmtpAccounts(e) == SelectSeq(SlotSeq, LAMBDA i : Configured(e[i]))

Present == [user |-> TRUE, pass |-> TRUE]

Envs == [1..AccountSlots -> [user : BOOLEAN, pass : BOOLEAN]]

\* entries of the arrays enumerated exhaustively
Entries == {AddrA, AddrB, Bad, <<>>, <<"a", "@", "@", "b">>}

Arrays(n) == UNION {[1..k -> Entries] : k \in 0..n}

ValidList(n) == [i \in 1..n |-> Addr(i)]

\* inputs quoted by the design document
ExampleArrays == {<<NotAnEmail, <<>>, Blank>>, <<<<"@">>, <<"a", "@">>, <<"@", "b">>>>,
                  <<AddrA, <<" ">> \o AddrB \o <<" ">> >>}

ExampleStrings == {AddrA \o Comma \o AddrA \o Comma \o Bad \o Comma \o AddrB,
                   AddrA \o <<",", " ">> \o AddrA \o <<";", " ">> \o AddrB,
                   AddrA \o <<"\n">> \o AddrB \o <<";">> \o AddrA}

Bodies ==
    {[kind |-> "malformed", val |-> <<>>], [kind |-> "absent", val |-> <<>>]}
    \cup {[kind |-> "array", val |-> a] :
              a \in Arrays(MaxEntries) \cup ExampleArrays
                    \cup {ValidList(n) : n \in 1..MaxRecipients}}
    \cup {[kind |-> "string", val |-> s] : s \in Str(MaxStrLen) \cup ExampleStrings}

\* the request and the environment carry no authorization at all
NoAuth == [token |-> "unset", header |-> "none"]

Auths == [token : {"unset", "t"}, header : {"none", "Bearer t", "Bearer u"}]

\* send-email2, line 9: `Bearer ${AUTH_TOKEN}`
BearerOf(token) == IF token = "t" THEN "Bearer t" ELSE "Bearer undefined"

\* send-email2, line 9: !authHeader || authHeader !== `Bearer ${AUTH_TOKEN}`
Unauthorized(a) == a.header = "none" \/ a.header # BearerOf(a.token)

\* requests of the design document, a list of valid addresses, and the two
\* bodies without emails
AuthBodies ==
    {[kind |-> "malformed", val |-> <<>>], [kind |-> "absent", val |-> <<>>]}
    \cup {[kind |-> "array", val |-> a] :
              a \in ExampleArrays \cup {ValidList(n) : n \in 1..MaxRecipients}}
    \cup {[kind |-> "string", val |-> s] : s \in ExampleStrings}

----------------------------------------------------------------------------
(* Responses *)

Rejected(status, error) ==
    [status |-> status, success |-> FALSE, error |-> error, counts |-> <<>>]

\* a failed recipient turns the summary into an error response
SummaryEscalated(sent, failed) ==
    IF failed > 0
    THEN [status |-> 500, success |-> FALSE, error |-> "Failed to send bulk email",
          counts |-> <<>>]
    ELSE [status |-> 200, success |-> TRUE, error |-> "", counts |-> <<sent, failed>>]

\* lines 98-101
Summary(sent, failed) ==
    [status |-> 200, success |-> TRUE, error |-> "", counts |-> <<sent, failed>>]

NoResponse == [status |-> 0, success |-> FALSE, error |-> "", counts |-> <<>>]

----------------------------------------------------------------------------
(* Events of the history *)

BatchEv == [ev |-> "batch", id |-> 0, cred |-> 0, ok |-> FALSE]
WaitEv == [ev |-> "wait", id |-> 0, cred |-> 0, ok |-> FALSE]
SendEv(id, cred, ok) == [ev |-> "send", id |-> id, cred |-> cred, ok |-> ok]
IssueEv(id, cred) == [ev |-> "issue", id |-> id, cred |-> cred, ok |-> FALSE]

----------------------------------------------------------------------------
(* A second invocation of the handler *)

\* the local variables of an invocation that has read nothing yet
Fresh(body) ==
    [pc |-> "start", emails |-> body, emailList |-> <<>>, recipients |-> <<>>,
     smtpAccounts |-> <<>>, sentCount |-> 0, failedCount |-> 0,
     currentAccountIndex |-> 0, batch |-> <<>>, account |-> 0, pos |-> 0,
     response |-> NoResponse, trace |-> <<>>]

\* there is no second invocation
NoRun == [Fresh([kind |-> "absent", val |-> <<>>]) EXCEPT !.pc = "none"]

\* the props of the marketing template, which the `data` of a request may
\* carry (MarketingTemplate.tsx lines 3-8; every prop has a default)
TemplateFields == {"title", "message", "ctaText", "ctaLink"}

----------------------------------------------------------------------------
Init ==
    /\ pc = "start"
    /\ other = NoRun
    /\ data = TemplateFields
    /\ auth = NoAuth
    /\ emails \in Bodies
    /\ env \in Envs
    /\ emailList = <<>>
    /\ recipients = <<>>
    /\ smtpAccounts = <<>>
    /\ sentCount = 0
    /\ failedCount = 0
    /\ currentAccountIndex = 0
    /\ batch = <<>>
    /\ account = 0
    /\ pos = 0
    /\ response = NoResponse
    /\ trace = <<>>

Respond(r) ==
    /\ pc' = "done"
    /\ response' = r

\* line 8 throws (the body is not JSON): the outer catch, lines 102-111
RequestThrows ==
    /\ pc = "start"
    /\ emails.kind = "malformed"
    /\ Respond(Rejected(500, "Failed to send bulk email"))
    /\ UNCHANGED <<other, data, auth, emails, env, emailList, recipients, smtpAccounts, sentCount,
                   failedCount, currentAccountIndex, batch, account, pos, trace>>

\* lines 9-13
MissingEmails ==
    /\ pc = "start"
    /\ emails.kind # "malformed"
    /\ Missing(emails)
    /\ Respond(Rejected(400, "Missing emails"))
    /\ UNCHANGED <<other, data, auth, emails, env, emailList, recipients, smtpAccounts, sentCount,
                   failedCount, currentAccountIndex, batch, account, pos, trace>>

\* lines 16-28
NoValidEmails ==
    /\ pc = "start"
    /\ emails.kind # "malformed"
    /\ ~Missing(emails)
    /\ CleanEmails(emails) = <<>>
    /\ Respond(Rejected(400, "No valid email addresses provided"))
    /\ UNCHANGED <<other, data, auth, emails, env, emailList, recipients, smtpAccounts, sentCount,
                   failedCount, currentAccountIndex, batch, account, pos, trace>>

\* the account check made before the cleaning of the list
NoAccountsFirst ==
    /\ pc = "start"
    /\ emails.kind # "malformed"
    /\ ~Missing(emails)
    /\ SmtpAccounts(env) = <<>>
    /\ emailList' = Tag(CleanEmails(emails))
    /\ recipients' = CleanEmails(emails)
    /\ Respond(Rejected(500, "No SMTP accounts configured"))
    /\ UNCHANGED <<other, data, auth, emails, env, smtpAccounts, sentCount, failedCount,
                   currentAccountIndex, batch, account, pos, trace>>

\* lines 16-42
NoAccounts ==
    /\ pc = "start"
    /\ emails.kind # "malformed"
    /\ ~Missing(emails)
    /\ CleanEmails(emails) # <<>>
    /\ SmtpAccounts(env) = <<>>
    /\ emailList' = Tag(CleanEmails(emails))
    /\ recipients' = CleanEmails(emails)
    /\ Respond(Rejected(500, "No SMTP accounts configured"))
    /\ UNCHANGED <<other, data, auth, emails, env, smtpAccounts, sentCount, failedCount,
                   currentAccountIndex, batch, account, pos, trace>>

\* lines 16-50: the request is accepted and the run starts
StartRun ==
    /\ pc = "start"
    /\ emails.kind # "malformed"
    /\ ~Missing(emails)
    /\ CleanEmails(emails) # <<>>
    /\ SmtpAccounts(env) # <<>>
    /\ emailList' = Tag(CleanEmails(emails))
    /\ recipients' = CleanEmails(emails)
    /\ smtpAccounts' = SmtpAccounts(env)
    /\ sentCount' = 0
    /\ failedCount' = 0
    /\ currentAccountIndex' = 0
    /\ pc' = "loop"
    /\ UNCHANGED <<other, data, auth, emails, env, batch, account, pos, response, trace>>

----------------------------------------------------------------------------
(* The batch loop, lines 59-96 *)

\* the first two entries are taken in reverse order
SplicedReversed(list) ==
    IF Len(list) < BatchSize THEN list ELSE <<list[2], list[1]>>

\* line 61: emailList.splice(0, 2) returns the first two entries ...
Spliced(list) == SubSeq(list, 1, IF Len(list) < BatchSize THEN Len(list) ELSE BatchSize)

\* only the first entry is removed from emailList
AfterSpliceOne(list) == Tail(list)

\* ... and leaves the others in emailList
AfterSplice(list) == SubSeq(list, Len(Spliced(list)) + 1, Len(list))

\* line 62 reads the first account, whatever the index
PickAccountFirst(accounts, index) == accounts[1]

\* line 62: smtpAccounts[currentAccountIndex]
PickAccount(accounts, index) == accounts[index + 1]

\* every entry from position p on is handed to sendMail at once
IssuedAll(b, p) == SubSeq(b, p, Len(b))

\* lines 65-67: at position p of the for loop sendMail is called for one
\* entry, and awaited
Issued(b, p) == <<b[p]>>

\* the calls of sendMail at position p, as events of the history
Issues(b, p, cred) == [j \in 1..Len(Issued(b, p)) |-> IssueEv(Issued(b, p)[j].id, cred)]

\* the last but one account is taken for the last
CanSwitchEarly(index, accounts) == index < Len(accounts) - 2

\* line 79: another account is available
CanSwitch(index, accounts) == index < Len(accounts) - 1

\* the index is not advanced when switching
NextAccountIndexStuck(index) == index

\* line 80
NextAccountIndex(index) == index + 1

\* line 82: emailList.unshift(email)
Unshift(list, email) == <<email>> \o list

\* the delay is never awaited
MustWaitNever(list) == FALSE

\* the delay is awaited after every batch, the last one included
MustWaitAlways(list) == TRUE

\* line 92
MustWait(list) == Len(list) > 0

\* lines 60-63: the loop condition holds, a batch is formed and the first
\* sendMail of the batch is issued
NextBatch ==
    /\ pc = "loop"
    /\ Len(emailList) > 0
    /\ batch' = Spliced(emailList)
    /\ emailList' = AfterSplice(emailList)
    /\ account' = PickAccount(smtpAccounts, currentAccountIndex)
    /\ pos' = 1
    /\ pc' = "send"
    /\ trace' = Append(trace, BatchEv) \o Issues(batch', 1, account')
    /\ UNCHANGED <<other, data, auth, emails, env, recipients, smtpAccounts, sentCount, failedCount,
                   currentAccountIndex, response>>

\* lines 89-96: the for loop is left after the attempt `ev`, with `list` as
\* emailList; the handler either awaits the 60 s timer or goes back to the
\* loop condition
EndOfBatch(list, ev) ==
    IF MustWait(list)
    THEN /\ pc' = "wait"
         /\ trace' = trace \o <<ev, WaitEv>>
    ELSE /\ pc' = "loop"
         /\ trace' = Append(trace, ev)

\* line 65: the for loop goes on with the next entry of the batch, or ends
Continue(ev) ==
    IF pos < Len(batch)
    THEN /\ pos' = pos + 1
         /\ pc' = "send"
         /\ trace' = Append(trace, ev) \o Issues(batch, pos + 1, account)
    ELSE /\ pos' = pos
         /\ EndOfBatch(emailList, ev)

\* lines 67-74: sendMail resolves
SendResolves ==
    /\ pc = "send"
    /\ sentCount' = sentCount + 1
    /\ Continue(SendEv(batch[pos].id, account, TRUE))
    /\ UNCHANGED <<other, data, auth, emails, env, emailList, recipients, smtpAccounts, failedCount,
                   currentAccountIndex, batch, account, response>>

\* lines 75-83: sendMail rejects and another account is left: switch to it,
\* put the entry back at the head of emailList and leave the for loop
SendRejectsSwitch ==
    /\ pc = "send"
    /\ CanSwitch(currentAccountIndex, smtpAccounts)
    /\ currentAccountIndex' = NextAccountIndex(currentAccountIndex)
    /\ emailList' = Unshift(emailList, batch[pos])
    /\ EndOfBatch(emailList', SendEv(batch[pos].id, account, FALSE))
    /\ UNCHANGED <<other, data, auth, emails, env, recipients, smtpAccounts, sentCount, failedCount,
                   batch, account, pos, response>>

\* lines 75-76, 84-87: sendMail rejects on the last account: the entry is
\* counted as failed and the for loop goes on
SendRejectsSkip ==
    /\ pc = "send"
    /\ ~CanSwitch(currentAccountIndex, smtpAccounts)
    /\ failedCount' = failedCount + 1
    /\ Continue(SendEv(batch[pos].id, account, FALSE))
    /\ UNCHANGED <<other, data, auth, emails, env, emailList, recipients, smtpAccounts, sentCount,
                   currentAccountIndex, batch, account, response>>

\* line 94: the 60 s timer fires
TimerFires ==
    /\ pc = "wait"
    /\ pc' = "loop"
    /\ UNCHANGED <<other, data, auth, emails, env, emailList, recipients, smtpAccounts, sentCount,
                   failedCount, currentAccountIndex, batch, account, pos,
                   response, trace>>

\* lines 60, 98-101: the loop condition fails and the summary is returned
ReturnSummary ==
    /\ pc = "loop"
    /\ Len(emailList) = 0
    /\ Respond(Summary(sentCount, failedCount))
    /\ UNCHANGED <<other, data, auth, emails, env, emailList, recipients, smtpAccounts, sentCount,
                   failedCount, currentAccountIndex, batch, account, pos, trace>>

Next ==
    \/ RequestThrows
    \/ MissingEmails
    \/ NoValidEmails
    \/ NoAccounts
    \/ StartRun
    \/ NextBatch
    \/ SendResolves
    \/ SendRejectsSwitch
    \/ SendRejectsSkip
    \/ TimerFires
    \/ ReturnSummary

Spec == Init /\ [][Next]_vars

\* requests with and without an Authorization header, with and without
\* API_AUTH_TOKEN in the environment
InitAuth ==
    /\ pc = "start"
    /\ other = NoRun
    /\ data = TemplateFields
    /\ auth \in Auths
    /\ emails \in AuthBodies
    /\ env \in Envs
    /\ emailList = <<>>
    /\ recipients = <<>>
    /\ smtpAccounts = <<>>
    /\ sentCount = 0
    /\ failedCount = 0
    /\ currentAccountIndex = 0
    /\ batch = <<>>
    /\ account = 0
    /\ pos = 0
    /\ response = NoResponse
    /\ trace = <<>>

SpecAuth == InitAuth /\ [][Next]_vars

\* the handler keeps running: code between two awaits is executed, a
\* sendMail promise settles (lines 67, 75) and the 60 s timer fires (line 94)
FairBodies ==
    {[kind |-> "malformed", val |-> <<>>], [kind |-> "absent", val |-> <<>>],
     [kind |-> "array", val |-> <<Bad>>]}
    \cup {[kind |-> "array", val |-> ValidList(n)] : n \in 1..MaxRecipients}

InitFair ==
    /\ pc = "start"
    /\ other = NoRun
    /\ data = TemplateFields
    /\ auth = NoAuth
    /\ emails \in FairBodies
    /\ env \in Envs
    /\ emailList = <<>>
    /\ recipients = <<>>
    /\ smtpAccounts = <<>>
    /\ sentCount = 0
    /\ failedCount = 0
    /\ currentAccountIndex = 0
    /\ batch = <<>>
    /\ account = 0
    /\ pos = 0
    /\ response = NoResponse
    /\ trace = <<>>

SpecFair == InitFair /\ [][Next]_vars /\ WF_vars(Next)

----------------------------------------------------------------------------
(* Two requests served concurrently.  The handler is an async function: its  *)
(* invocations interleave at their awaits (request.json(), sendMail, the     *)
(* timer), and every variable declared inside POST belongs to one invocation.*)

\* the local variables of the running invocation
Suspended ==
    [pc |-> pc, emails |-> emails, emailList |-> emailList, recipients |-> recipients,
     smtpAccounts |-> smtpAccounts, sentCount |-> sentCount, failedCount |-> failedCount,
     currentAccountIndex |-> currentAccountIndex, batch |-> batch, account |-> account,
     pos |-> pos, response |-> response, trace |-> trace]

\* currentAccountIndex is declared at module level: the resumed invocation
\* finds the value the other one left
ResumedIndexShared(own, live) == live

\* line 50: `let currentAccountIndex` is declared inside POST: the resumed
\* invocation finds its own value
ResumedIndex(own, live) == own

AwaitPoints == {"start", "send", "wait"}

\* the running invocation is suspended at an await and the other one resumes
SwitchRun ==
    /\ pc \in AwaitPoints \cup {"done"}
    /\ other.pc \in AwaitPoints
    /\ other' = Suspended
    /\ pc' = other.pc
    /\ emails' = other.emails
    /\ emailList' = other.emailList
    /\ recipients' = other.recipients
    /\ smtpAccounts' = other.smtpAccounts
    /\ sentCount' = other.sentCount
    /\ failedCount' = other.failedCount
    /\ currentAccountIndex' = ResumedIndex(other.currentAccountIndex, currentAccountIndex)
    /\ batch' = other.batch
    /\ account' = other.account
    /\ pos' = other.pos
    /\ response' = other.response
    /\ trace' = other.trace
    /\ UNCHANGED <<data, auth, env>>

ConcurrentBodies ==
    {[kind |-> "malformed", val |-> <<>>], [kind |-> "absent", val |-> <<>>],
     [kind |-> "array", val |-> <<Bad>>]}
    \cup {[kind |-> "array", val |-> ValidList(n)] : n \in 1..MaxConcurrent}

InitTwo ==
    /\ pc = "start"
    /\ other \in {Fresh(b) : b \in ConcurrentBodies}
    /\ data = TemplateFields
    /\ auth = NoAuth
    /\ emails \in ConcurrentBodies
    /\ env \in Envs
    /\ emailList = <<>>
    /\ recipients = <<>>
    /\ smtpAccounts = <<>>
    /\ sentCount = 0
    /\ failedCount = 0
    /\ currentAccountIndex = 0
    /\ batch = <<>>
    /\ account = 0
    /\ pos = 0
    /\ response = NoResponse
    /\ trace = <<>>

NextTwo ==
    \/ Next
    \/ SwitchRun

SpecTwo == InitTwo /\ [][NextTwo]_vars

----------------------------------------------------------------------------
(* Requests whose `data` carries any part of the template's props *)

InitTemplate ==
    /\ pc = "start"
    /\ other = NoRun
    /\ data \in SUBSET TemplateFields
    /\ auth = NoAuth
    /\ emails \in ConcurrentBodies
    /\ env \in Envs
    /\ emailList = <<>>
    /\ recipients = <<>>
    /\ smtpAccounts = <<>>
    /\ sentCount = 0
    /\ failedCount = 0
    /\ currentAccountIndex = 0
    /\ batch = <<>>
    /\ account = 0
    /\ pos = 0
    /\ response = NoResponse
    /\ trace = <<>>

SpecTemplate == InitTemplate /\ [][Next]_vars

----------------------------------------------------------------------------
(* Vocabulary of the properties *)

Returned == pc = "done"

Completed == pc = "done" /\ response.status = 200

\* positions of the delivery attempts in the history
SendIdx == {k \in 1..Len(trace) : trace[k].ev = "send"}

\* delivery attempts made for the recipient at index i of the cleaned list
AttemptsOf(i) == {k \in SendIdx : trace[k].id = i}

NumBatches == Cardinality({k \in 1..Len(trace) : trace[k].ev = "batch"})

NumWaits == Cardinality({k \in 1..Len(trace) : trace[k].ev = "wait"})

\* the recipient at index i was delivered
WasSent(i) == \E k \in AttemptsOf(i) : trace[k].ok

\* the recipient at index i failed on the last account of the pool
WasFailed(i) ==
    \E k \in AttemptsOf(i) :
        ~trace[k].ok /\ trace[k].cred = smtpAccounts[Len(smtpAccounts)]

EveryAttemptFailed == \A k \in SendIdx : ~trace[k].ok

EveryAttemptSucceeded == \A k \in SendIdx : trace[k].ok

\* the request body was read and holds emails
Parsed == emails.kind \in {"array", "string"}

\* a string holds the character @
HasAt(e) == \E i \in DOMAIN e : e[i] = "@"

\* no entry of the input holds an @
NoAddressInInput ==
    IF emails.kind = "array"
    THEN \A i \in DOMAIN emails.val : ~HasAt(emails.val[i])
    ELSE ~HasAt(emails.val)

\* no slot of the environment holds both a user and a password
NoCredentialInEnv == \A i \in 1..AccountSlots : ~(env[i].user /\ env[i].pass)

\* exactly one @, with something before it and something after it
WellFormed(e) ==
    /\ Cardinality({i \in DOMAIN e : e[i] = "@"}) = 1
    /\ e[1] # "@"
    /\ e[Len(e)] # "@"

----------------------------------------------------------------------------
(* C1 - Conservation: a run that returns 200 reports sent + failed equal to  *)
(* the number of recipients of the cleaned list.                            *)
C1_Conservation ==
    Completed => response.counts[1] + response.counts[2] = Len(recipients)

(* C2 - No recipient is lost: when the run returns, every recipient of the   *)
(* cleaned list has been delivered or has failed on the last account.        *)
C2_NoRecipientLost ==
    Completed => \A i \in 1..Len(recipients) : WasSent(i) \/ WasFailed(i)

(* C3 - Exhaustion: when every delivery attempt of a run fails, the run      *)
(* returns 200, success, sent = 0 and failed = number of recipients.         *)
C3_Exhaustion ==
    (Returned /\ smtpAccounts # <<>> /\ EveryAttemptFailed)
        => /\ response.status = 200
           /\ response.success
           /\ response.counts = <<0, Len(recipients)>>

(* C4 - Rotation bound: no recipient is attempted twice on the same account, *)
(* and no recipient is attempted more often than there are accounts.         *)
C4_RotationBound ==
    \A i \in 1..Len(recipients) :
        /\ \A k1, k2 \in AttemptsOf(i) : k1 # k2 => trace[k1].cred # trace[k2].cred
        /\ Cardinality(AttemptsOf(i)) <= Len(smtpAccounts)

\* a recipient was attempted on each of three accounts, and the run returned
C4_Witness ==
    /\ Returned
    /\ Len(smtpAccounts) = AccountSlots
    /\ \E i \in 1..Len(recipients) : Cardinality(AttemptsOf(i)) = AccountSlots

(* C5 - Deduplication: an address supplied several times contributes one     *)
(* recipient, is delivered at most once and is counted once; the input       *)
(* "a@x.com,a@x.com,bad,b@y.com" with one account that always succeeds       *)
(* yields sent = 2 and failed = 0.                                           *)
C5_Deduplication ==
    Completed =>
        /\ \A i, j \in 1..Len(recipients) : i # j => recipients[i] # recipients[j]
        /\ \A k1, k2 \in SendIdx :
               (k1 # k2 /\ trace[k1].ok /\ trace[k2].ok)
                   => recipients[trace[k1].id] # recipients[trace[k2].id]
        /\ ( /\ emails = [kind |-> "string",
                          val |-> AddrA \o Comma \o AddrA \o Comma \o Bad \o Comma \o AddrB]
             /\ Len(smtpAccounts) = 1
             /\ EveryAttemptSucceeded )
               => response.counts = <<2, 0>>

(* C6 - Pacing: with a single account, N recipients go out as ceil(N/2)      *)
(* batches; every batch but the first directly follows a delay, every delay  *)
(* is directly followed by a batch, and no delay follows the last batch.     *)
C6_Pacing ==
    Len(smtpAccounts) = 1 =>
        /\ \A k \in 1..Len(trace) :
               /\ (trace[k].ev = "batch" /\ k > 1) => trace[k - 1].ev = "wait"
               /\ trace[k].ev = "wait" =>
                      /\ k > 1
                      /\ k < Len(trace) => trace[k + 1].ev = "batch"
                      /\ Returned => k < Len(trace)
        /\ NumBatches <= (Len(recipients) + 1) \div BatchSize
        /\ Completed =>
               /\ NumBatches = (Len(recipients) + 1) \div BatchSize
               /\ NumWaits = NumBatches - 1

\* five recipients and one account: three batches and two delays
C6_Witness ==
    /\ Completed
    /\ Len(smtpAccounts) = 1
    /\ Len(recipients) = 5
    /\ NumBatches = 3
    /\ NumWaits = 2

(* C7 - Partial failures never fail the request: with at least one valid     *)
(* recipient and one configured account the handler returns 200, success     *)
(* and the two counts, whichever deliveries failed; no response other than   *)
(* 200 is produced once a delivery has been attempted.                       *)
C7_PartialFailuresReturn200 ==
    /\ (Returned /\ Parsed /\ ~NoAddressInInput /\ ~NoCredentialInEnv)
           => /\ response.status = 200
              /\ response.success
              /\ response.counts = <<sentCount, failedCount>>
    /\ SendIdx # {} => response.status \in {0, 200}

\* a run that returned after a delivery was counted as failed
C7_Witness ==
    /\ Returned
    /\ failedCount > 0
    /\ \E k \in SendIdx : ~trace[k].ok
    /\ \E k \in SendIdx : trace[k].ok

(* C8 - Empty recipient set: when no entry of the input holds an @, the      *)
(* handler returns 400 with success false and attempts no delivery.          *)
C8_EmptyRecipientSet ==
    (Parsed /\ NoAddressInInput) =>
        /\ SendIdx = {}
        /\ pc \in {"start", "done"}
        /\ Returned => (response.status = 400 /\ ~response.success)

\* the input ["not-an-email", "", "   "] was answered 400
C8_Witness ==
    /\ Returned
    /\ emails = [kind |-> "array", val |-> <<NotAnEmail, <<>>, Blank>>]
    /\ response.status = 400

(* C9 - Empty credential pool, as claimed: when no slot holds both a user    *)
(* and a password, the handler returns 500 with success false and attempts   *)
(* no delivery.                                                              *)
C9_EmptyPoolAlways500 ==
    NoCredentialInEnv =>
        /\ SendIdx = {}
        /\ Returned => (response.status = 500 /\ ~response.success)

(* C9 - Empty credential pool, amended: when no slot holds both a user and   *)
(* a password, no delivery is attempted and the handler returns success      *)
(* false, with 500 if the input holds a valid recipient (or cannot be read)  *)
(* and with the 400 of the earlier checks otherwise.                         *)
C9_EmptyPool ==
    NoCredentialInEnv =>
        /\ SendIdx = {}
        /\ pc \in {"start", "done"}
        /\ Returned =>
               /\ ~response.success
               /\ response.counts = <<>>
               /\ response.status = IF emails.kind = "absent" \/ (Parsed /\ NoAddressInInput)
                                    THEN 400 ELSE 500

\* valid recipients, no account: answered 500 "No SMTP accounts configured"
C9_Witness ==
    /\ Returned
    /\ NoCredentialInEnv
    /\ Len(recipients) > 0
    /\ \E i \in 1..AccountSlots : env[i].user
    /\ response = Rejected(500, "No SMTP accounts configured")

(* C10 - Every address of the cleaned list holds exactly one @, with a       *)
(* non-empty part before it and a non-empty part after it.                   *)
C10_WellFormedAddresses ==
    \A i \in 1..Len(recipients) : WellFormed(recipients[i])

(* C11 - Authorization gate: with an auth token configured, a request whose  *)
(* Authorization header is missing or is not "Bearer <token>" is answered    *)
(* 401, and no cleaning, account lookup or delivery attempt takes place.     *)
C11_AuthorizationGate ==
    (auth.token # "unset" /\ Unauthorized(auth)) =>
        /\ recipients = <<>>
        /\ smtpAccounts = <<>>
        /\ SendIdx = {}
        /\ Returned => response.status = 401

\* the cleaned list handed back to the handler as the emails of a request
AsArray(list) == [kind |-> "array", val |-> list]

(* C12 - Idempotent normalization: cleaning the cleaned list again yields    *)
(* the same list, for the list the handler computed and for every input.     *)
C12_IdempotentNormalization ==
    /\ CleanEmails(AsArray(recipients)) = recipients
    /\ Parsed => CleanEmails(AsArray(CleanEmails(emails))) = CleanEmails(emails)

\* a delimited string with a duplicate and a malformed entry was cleaned to
\* three entries, which cleaning leaves as they are
C12_Witness ==
    /\ emails.kind = "string"
    /\ Len(Split(emails.val)) = 4
    /\ recipients = <<AddrA, AddrA, AddrB>>
    /\ CleanEmails(AsArray(recipients)) = <<AddrA, AddrA, AddrB>>

\* positions of the calls of sendMail in the history
IssueIdx == {k \in 1..Len(trace) : trace[k].ev = "issue"}

\* the last account of the pool
LastAccount == smtpAccounts[Len(smtpAccounts)]

\* the attempt at k failed and the handler switched to the next account
SwitchedAt(k) ==
    /\ k \in SendIdx
    /\ ~trace[k].ok
    /\ trace[k].cred # LastAccount

\* the call at k2 is the retry that follows the failed attempt at k1
RetryOf(k1, k2) ==
    /\ k2 \in IssueIdx
    /\ k1 < k2
    /\ trace[k2].id = trace[k1].id
    /\ \A j \in IssueIdx : (k1 < j /\ j < k2) => trace[j].id # trace[k1].id

(* C13 - Rotation retry is immediate: no delay is awaited between a failed   *)
(* attempt that switches the account and the retry of the same recipient.    *)
C13_ImmediateRetry ==
    \A k1 \in SendIdx, k2 \in IssueIdx :
        (SwitchedAt(k1) /\ RetryOf(k1, k2))
            => \A j \in k1..k2 : trace[j].ev # "wait"

\* position of the event that opened the current batch
LastBatchIdx ==
    CHOOSE k \in 1..Len(trace) :
        /\ trace[k].ev = "batch"
        /\ \A j \in (k + 1)..Len(trace) : trace[j].ev # "batch"

(* C14 - A batch continues after a failure: once the for loop over a batch   *)
(* is left, every entry of that batch has had a delivery attempt in it.      *)
C14_BatchContinues ==
    (pc \in {"loop", "wait", "done"} /\ batch # <<>>) =>
        \A p \in 1..Len(batch) :
            \E k \in SendIdx : k > LastBatchIdx /\ trace[k].id = batch[p].id

(* C15 - An account on which a delivery failed and from which the handler    *)
(* switched away is used for no later attempt of the run.                    *)
C15_FailedAccountNotReused ==
    \A k1 \in SendIdx, k2 \in IssueIdx \cup SendIdx :
        (SwitchedAt(k1) /\ k1 < k2) => trace[k2].cred # trace[k1].cred

\* three accounts: the first two failed one after the other, the third one
\* delivered, and the run returned
C15_Witness ==
    /\ Returned
    /\ Len(smtpAccounts) = AccountSlots
    /\ \E k1, k2, k3 \in SendIdx :
           /\ k1 < k2 /\ k2 < k3
           /\ SwitchedAt(k1) /\ trace[k1].cred = smtpAccounts[1]
           /\ SwitchedAt(k2) /\ trace[k2].cred = smtpAccounts[2]
           /\ trace[k3].ok /\ trace[k3].cred = smtpAccounts[3]

\* by position k every account of the pool has failed a delivery
Exhausted(k) ==
    \A a \in 1..Len(smtpAccounts) :
        \E j \in SendIdx : j <= k /\ ~trace[j].ok /\ trace[j].cred = smtpAccounts[a]

(* C16 - Pool exhaustion: once every account has failed a delivery, sendMail *)
(* is not called again and every recipient not delivered is counted failed.  *)
C16_PoolExhaustion ==
    /\ \A k \in SendIdx, k2 \in IssueIdx : Exhausted(k) => k2 < k
    /\ (Completed /\ \E k \in SendIdx : Exhausted(k))
           => response.counts[2] = Len(recipients) - response.counts[1]

\* number of the batch the event at k belongs to
BatchNo(k) == Cardinality({j \in 1..k : trace[j].ev = "batch"})

(* C17 - Round-robin assignment: with two or more accounts and no delivery   *)
(* failure, the n-th batch uses the n-th account of the pool, wrapping.      *)
C17_RoundRobin ==
    (Len(smtpAccounts) >= 2 /\ EveryAttemptSucceeded) =>
        \A k \in IssueIdx :
            trace[k].cred = smtpAccounts[((BatchNo(k) - 1) % Len(smtpAccounts)) + 1]

(* C18 - One credential per batch: all attempts of one batch use the same    *)
(* account, the one the pool index pointed at when the batch was formed.     *)
C18_OneCredentialPerBatch ==
    /\ \A k1, k2 \in IssueIdx \cup SendIdx :
           BatchNo(k1) = BatchNo(k2) => trace[k1].cred = trace[k2].cred
    /\ \A k \in IssueIdx \cup SendIdx : trace[k].cred \in {smtpAccounts[a] : a \in 1..Len(smtpAccounts)}
    /\ pc = "send" => account = smtpAccounts[currentAccountIndex + 1]

\* after a switch, a batch of two was attempted in full on the second
\* account, its first entry failing
C18_Witness ==
    /\ Returned
    /\ Len(smtpAccounts) = 2
    /\ \E k1, k2 \in SendIdx :
           /\ k1 < k2
           /\ BatchNo(k1) = BatchNo(k2)
           /\ BatchNo(k1) > 1
           /\ ~trace[k1].ok
           /\ trace[k1].cred = smtpAccounts[2]
           /\ trace[k2].cred = smtpAccounts[2]

\* the call at k is the first one for its recipient
FirstIssue(k) ==
    /\ k \in IssueIdx
    /\ \A j \in IssueIdx : j < k => trace[j].id # trace[k].id

(* C19 - Ordering: first delivery attempts are made in the order of the      *)
(* cleaned list, also across account switches.                               *)
C19_Ordering ==
    \A k1, k2 \in IssueIdx :
        (FirstIssue(k1) /\ FirstIssue(k2) /\ k1 < k2) => trace[k1].id < trace[k2].id

\* a run with an account switch in which recipients 1, 2 and 3 were attempted
C19_Witness ==
    /\ Returned
    /\ \E k \in SendIdx : SwitchedAt(k) /\ trace[k].id = 2
    /\ \A i \in 1..3 : AttemptsOf(i) # {}

(* C20 - Sequential delivery: at most one sendMail is in flight; a call is   *)
(* made only after the outcome of the previous one is known.                 *)
C20_SequentialDelivery ==
    /\ Cardinality(IssueIdx) - Cardinality(SendIdx) \in {0, 1}
    /\ pc = "send" <=> Cardinality(IssueIdx) - Cardinality(SendIdx) = 1
    /\ \A k \in IssueIdx :
           IF k = Len(trace)
           THEN pc = "send"
           ELSE /\ trace[k + 1].ev = "send"
                /\ trace[k + 1].id = trace[k].id
                /\ trace[k + 1].cred = trace[k].cred
    /\ \A k \in SendIdx : k > 1 /\ trace[k - 1].ev = "issue"

\* a delivery is in flight after an earlier attempt failed and another
\* succeeded
C20_Witness ==
    /\ pc = "send"
    /\ \E k \in SendIdx : ~trace[k].ok
    /\ \E k \in SendIdx : trace[k].ok
    /\ Cardinality(IssueIdx) >= 3

\* number of failed attempts in the history h that switched the account of
\* the pool `accounts`
SwitchesIn(h, accounts) ==
    Cardinality({k \in 1..Len(h) :
        h[k].ev = "send" /\ ~h[k].ok /\ h[k].cred # accounts[Len(accounts)]})

\* the cursor, the account in use and the counts of the invocation r are
\* those its own history accounts for
OwnCursorAndCounts(r) ==
    /\ r.smtpAccounts \in {<<>>, SmtpAccounts(env)}
    /\ r.smtpAccounts # <<>> =>
           /\ r.currentAccountIndex = SwitchesIn(r.trace, r.smtpAccounts)
           /\ r.pc = "send" => r.account = r.smtpAccounts[SwitchesIn(r.trace, r.smtpAccounts) + 1]
           /\ r.sentCount = Cardinality({k \in 1..Len(r.trace) :
                                 r.trace[k].ev = "send" /\ r.trace[k].ok})
           /\ r.failedCount = Cardinality({k \in 1..Len(r.trace) :
                                   /\ r.trace[k].ev = "send"
                                   /\ ~r.trace[k].ok
                                   /\ r.trace[k].cred = r.smtpAccounts[Len(r.smtpAccounts)]})
           /\ r.pc = "done" => r.response = Summary(r.sentCount, r.failedCount)

(* C21 - Run isolation: of two concurrent runs each has its own pool and     *)
(* cursor; the cursor, the account in use and the counts of a run are        *)
(* determined by its own attempts, whatever the other run switched.          *)
C21_RunIsolation ==
    /\ OwnCursorAndCounts(Suspended)
    /\ OwnCursorAndCounts(other)

\* one run waits after it switched to its second account while the other
\* run, which delivered once already, has an attempt in flight on the first
C21_Witness ==
    /\ other.pc = "wait"
    /\ other.currentAccountIndex = 1
    /\ pc = "send"
    /\ currentAccountIndex = 0
    /\ sentCount = 1
    /\ account = smtpAccounts[1]
    /\ Len(smtpAccounts) >= 2

(* C22 - Template fields: a request whose template data lacks a required     *)
(* field is answered 400 and no delivery is attempted. Stated for the        *)
(* request that carries none of the template's fields, which lacks every     *)
(* field that could be required.                                             *)
C22_TemplateFieldsRequired ==
    (data = {} /\ emails.kind # "malformed") =>
        /\ SendIdx = {}
        /\ Returned => response.status = 400

\* the non-empty maximal runs of characters of s that are not in seps
RECURSIVE Fields(_, _)
Fields(s, seps) ==
    IF s = <<>> THEN <<>>
    ELSE IF Head(s) \in seps THEN Fields(Tail(s), seps)
    ELSE LET stops == {i \in 1..Len(s) : s[i] \in seps}
             n == IF stops = {} THEN Len(s) + 1
                  ELSE CHOOSE i \in stops : \A j \in stops : i <= j
         IN  <<SubSeq(s, 1, n - 1)>> \o Fields(SubSeq(s, n, Len(s)), seps)

\* e without the white space at its two ends
Stripped(e) ==
    LET inked == {i \in 1..Len(e) : e[i] \notin {" ", "\t", "\n"}}
    IN  IF inked = {} THEN <<>>
        ELSE SubSeq(e, CHOOSE i \in inked : \A j \in inked : i <= j,
                       CHOOSE i \in inked : \A j \in inked : i >= j)

\* the addresses of the string s when the characters of seps delimit them
Delimited(s, seps) ==
    LET f == Fields(s, seps)
    IN  SelectSeq([i \in 1..Len(f) |-> Stripped(f[i])], HasAt)

\* the cleaning of a delimited string has run
StringCleaned == emails.kind = "string" /\ emails.val # <<>> /\ pc # "start"

(* C23 as stated - Delimiters: a delimited string is split on comma,         *)
(* semicolon, newline and any white space, the tab included, so that every   *)
(* address separated by one of them is a recipient of its own.               *)
C23_SplitOnAnyWhitespace ==
    StringCleaned => recipients = Delimited(emails.val, {",", ";", "\n", " ", "\t"})

(* C23 - Delimiters: a delimited string is split on comma, semicolon,        *)
(* newline and space in any combination; a tab does not delimit: it is       *)
(* removed at the ends of a piece and stays part of it elsewhere.            *)
C23_Delimiters ==
    StringCleaned => recipients = Delimited(emails.val, {",", ";", "\n", " "})

\* a string with a tab between two addresses was accepted as one recipient
\* and its delivery was attempted
C23_Witness ==
    /\ StringCleaned
    /\ Len(recipients) = 1
    /\ \E j \in 2..(Len(recipients[1]) - 1) : recipients[1][j] = "\t"
    /\ Len(Delimited(emails.val, {",", ";", "\n", " ", "\t"})) = 2
    /\ AttemptsOf(1) # {}

\* credentials of the pool after the current one
PoolLeft ==
    IF smtpAccounts = <<>> THEN 0 ELSE Len(smtpAccounts) - 1 - currentAccountIndex

\* what is left to do: the pending entries and the credentials still to
\* switch to, then the position inside the iteration
Variant ==
    CASE pc = "start" -> 4 * (Len(CleanEmails(emails)) + AccountSlots) + 2
      [] pc = "send"  -> 4 * (Len(emailList) + PoolLeft) + 3 + (Len(batch) - pos)
      [] pc = "wait"  -> 4 * (Len(emailList) + PoolLeft) + 2
      [] pc = "loop"  -> 4 * (Len(emailList) + PoolLeft) + 1
      [] pc = "done"  -> 0

(* C24 - Termination: whatever the recipient list, the pool and the outcomes *)
(* of the deliveries, every step of the handler decreases a non-negative     *)
(* measure made of the length of the pending list and the credentials left   *)
(* to switch to, and a response is eventually returned.                      *)
C24_Termination ==
    /\ [][Variant' < Variant /\ Variant' >= 0]_vars
    /\ <>(pc = "done")

\* a run over three batches that switched twice has returned its summary
C24_Witness ==
    /\ Completed
    /\ NumBatches >= 3
    /\ currentAccountIndex = 2
    /\ sentCount >= 1

\* attempts that added to sentCount, and attempts that added to failedCount
\* (a rejection on the last credential), for the recipient at index i
CountedSent(i) == {k \in AttemptsOf(i) : trace[k].ok}

CountedFailed(i) ==
    {k \in AttemptsOf(i) : ~trace[k].ok /\ trace[k].cred = smtpAccounts[Len(smtpAccounts)]}

(* C25 - No double counting: sentCount + failedCount never exceeds the       *)
(* number of recipients removed from the pending list; the counters are the  *)
(* numbers of counted attempts, a recipient is counted at most once in all,  *)
(* and no attempt is issued for a recipient after its delivery succeeded.    *)
C25_NoDoubleCounting ==
    /\ sentCount + failedCount <= Len(recipients) - Len(emailList)
    /\ sentCount = Cardinality({k \in SendIdx : trace[k].ok})
    /\ smtpAccounts # <<>> =>
           /\ failedCount = Cardinality(UNION {CountedFailed(i) : i \in DOMAIN recipients})
           /\ \A i \in DOMAIN recipients :
                  Cardinality(CountedSent(i)) + Cardinality(CountedFailed(i)) <= 1
    /\ \A k \in SendIdx : trace[k].ok =>
           \A j \in IssueIdx : j > k => trace[j].id # trace[k].id

\* a finished run that counted one recipient as sent on its second attempt
\* and another as failed
C25_Witness ==
    /\ Completed
    /\ sentCount >= 1
    /\ failedCount >= 1
    /\ \E i \in DOMAIN recipients :
           /\ Cardinality(AttemptsOf(i)) = 2
           /\ Cardinality(CountedSent(i)) = 1

\* positions of the pacing delays in the history
WaitIdx == {k \in 1..Len(trace) : trace[k].ev = "wait"}

\* no pacing delay lies between the positions a and b of the history
NoWaitBetween(a, b) == \A w \in WaitIdx : ~(a < w /\ w < b)

(* C26 - Throughput ceiling: in a stretch of the run without a pacing delay  *)
(* at most 2 deliveries are attempted, retries included, and all of them     *)
(* with the same credential.                                                 *)
C26_ThroughputCeiling ==
    \A a \in IssueIdx : \A b \in IssueIdx :
        (a < b /\ NoWaitBetween(a, b)) =>
            /\ trace[a].cred = trace[b].cred
            /\ Cardinality({k \in IssueIdx : a <= k /\ k <= b}) <= BatchSize

\* between two consecutive delays two deliveries were attempted with the
\* second credential, the first of them the retry of a failed recipient
C26_Witness ==
    \E v \in WaitIdx : \E w \in WaitIdx :
        /\ Len(smtpAccounts) >= 2
        /\ v < w
        /\ NoWaitBetween(v, w)
        /\ Cardinality({k \in IssueIdx : v < k /\ k < w}) = BatchSize
        /\ \E k \in IssueIdx :
               /\ v < k /\ k < w
               /\ trace[k].cred = smtpAccounts[2]
               /\ \E j \in SendIdx : j < v /\ trace[j].id = trace[k].id /\ ~trace[j].ok

\* the request carries no emails: the property is absent, or an empty string
NoEmailsInRequest ==
    emails.kind = "absent" \/ (emails.kind = "string" /\ Len(emails.val) = 0)

(* C27 - Rejection precedence: a request without emails is answered 400      *)
(* "Missing emails"; otherwise one without a valid recipient is answered 400 *)
(* "No valid email addresses provided", whether or not a credential is       *)
(* configured; otherwise one without a credential is answered 500; a         *)
(* rejected request has no delivery attempt and no counts in its response.   *)
C27_RejectionPrecedence ==
    Returned =>
        /\ (Parsed \/ emails.kind = "absent") =>
               CASE NoEmailsInRequest ->
                        response = Rejected(400, "Missing emails")
                 [] ~NoEmailsInRequest /\ NoAddressInInput ->
                        response = Rejected(400, "No valid email addresses provided")
                 [] ~NoEmailsInRequest /\ ~NoAddressInInput /\ NoCredentialInEnv ->
                        response = Rejected(500, "No SMTP accounts configured")
                 [] OTHER -> response.status = 200
        /\ response.status # 200 =>
               /\ response.counts = <<>>
               /\ SendIdx = {}
               /\ sentCount = 0 /\ failedCount = 0

\* no valid recipient and no credential: answered 400, not 500
C27_Witness ==
    /\ Returned
    /\ Parsed
    /\ ~NoEmailsInRequest
    /\ NoAddressInInput
    /\ NoCredentialInEnv
    /\ response = Rejected(400, "No valid email addresses provided")

(* C28 - A recipient is counted as failed only by a step in which its        *)
(* delivery fails while the current credential is the last of the pool; the  *)
(* credential index never decreases and never exceeds pool size - 1.         *)
C28_FailedOnlyOnLastCredential ==
    [][/\ failedCount' # failedCount =>
              /\ failedCount' = failedCount + 1
              /\ pc = "send"
              /\ currentAccountIndex = Len(smtpAccounts) - 1
              /\ account = smtpAccounts[Len(smtpAccounts)]
              /\ currentAccountIndex' = currentAccountIndex
              /\ \E k \in DOMAIN trace' \ DOMAIN trace :
                     trace'[k] = SendEv(batch[pos].id, account, FALSE)
       /\ currentAccountIndex' >= currentAccountIndex
       /\ currentAccountIndex' >= 0
       /\ smtpAccounts' # <<>> => currentAccountIndex' <= Len(smtpAccounts') - 1
       /\ smtpAccounts' = <<>> => currentAccountIndex' = 0]_vars

\* with a pool of at least two credentials, a recipient was counted as
\* failed after its only attempt, another recipient having used up the
\* earlier credentials
C28_Witness ==
    /\ Returned
    /\ Len(smtpAccounts) >= 2
    /\ \E i \in DOMAIN recipients :
           /\ Cardinality(AttemptsOf(i)) = 1
           /\ Cardinality(CountedFailed(i)) = 1
           /\ \E j \in DOMAIN recipients :
                  j # i /\ \E k \in AttemptsOf(j) :
                      ~trace[k].ok /\ trace[k].cred = smtpAccounts[1]

\* the accounts of the run have been read from the environment
PoolLoaded == pc \in {"loop", "send", "wait"} \/ Completed

(* C29 - The credential pool is fixed for the run: once loaded it holds      *)
(* exactly the slots that have both a user and a password, each once and in  *)
(* slot order, and no step of the run changes it or the environment it was   *)
(* read from.                                                                *)
C29_PoolFixed ==
    /\ [](PoolLoaded =>
            /\ {smtpAccounts[k] : k \in DOMAIN smtpAccounts}
                   = {i \in 1..AccountSlots : env[i].user /\ env[i].pass}
            /\ \A k \in DOMAIN smtpAccounts : \A l \in DOMAIN smtpAccounts :
                   k < l => smtpAccounts[k] < smtpAccounts[l])
    /\ [][/\ env' = env
          /\ PoolLoaded => smtpAccounts' = smtpAccounts]_vars

\* a run with the slots 1 and 3 configured, slot 2 holding a user only,
\* has switched to slot 3 after two batches and a failure
C29_Witness ==
    /\ PoolLoaded
    /\ smtpAccounts = <<1, 3>>
    /\ env[2].user /\ ~env[2].pass
    /\ currentAccountIndex = 1
    /\ NumBatches >= 2
    /\ \E k \in SendIdx : ~trace[k].ok

\* Array.prototype.join(","): the entries of a list as one comma-separated
\* string
RECURSIVE Join(_)
Join(list) ==
    IF list = <<>> THEN <<>>
    ELSE IF Len(list) = 1 THEN list[1]
    ELSE list[1] \o <<",">> \o Join(Tail(list))

\* the cleaning of an array whose entries hold no comma has run
ArrayCleaned ==
    /\ emails.kind = "array"
    /\ pc # "start"
    /\ \A i \in DOMAIN emails.val : \A j \in DOMAIN emails.val[i] : emails.val[i][j] # ","

(* C30 - List and delimited-string inputs are equivalent: the recipient list *)
(* computed from an array is the one computed from the comma-separated       *)
(* string of the same entries.                                               *)
C30_ListStringEquivalence ==
    ArrayCleaned =>
        recipients = Delimited(Join(emails.val), {",", ";", "\n", " "})

====
